---- MODULE Spec2Model ----
(***************************************************************************)
(* State-machine model of the pico-raycaster map editor: the Project       *)
(* document (map_editor/project.py), the .xip container codec              *)
(* (map_editor/xip_utils.py), the fixed-point helpers                      *)
(* (map_editor/fixed_point.py) and the editor window / canvas handlers     *)
(* (map_editor/ui/main_window.py, map_editor/ui/custom_widgets.py).        *)
(*                                                                         *)
(* Four specifications are given over the same variables:                  *)
(*   ProjectSpec  the Project API and the codec called directly, from the  *)
(*                state after Project.__init__, with integer arguments     *)
(*                drawn from small sets;                                   *)
(*   Spec         the editor window, from the state after                  *)
(*                MapEditorMainWindow.__init__, driven by its spin boxes   *)
(*                and its Save and Load buttons;                           *)
(*   CanvasSpec   the same window driven by the canvas's mouse events and  *)
(*                the controls that act on the canvas;                     *)
(*   ConvSpec     the static conversions of ConversionHelpers, each        *)
(*                applied once to an input drawn from a bounded set.       *)
(***************************************************************************)
EXTENDS Integers, Sequences, FiniteSets, TLC

VARIABLES
    map,        \* Project.map: [width, height, tiles]
    player,     \* Project.player: [start_x, start_y, start_angle_x, start_angle_y]
    dirty,      \* Project._dirty
    emitted,    \* the signals emitted by the last handler, in order
    disk,       \* the bytes of assets/mapdata.xip, or NoFile
    op,         \* the last handler that ran (in ConvSpec: the conversion called)
    ret,        \* what the codec call or conversion of the last handler returned
    file,       \* the buffer handed to the last import_map_from_xip call
    ui          \* the widgets' state: spin boxes, canvas mode and drag state

vars == <<map, player, dirty, emitted, disk, op, ret, file, ui>>

(***************************************************************************)
(* map_data.py and xip_utils.py constants                                  *)
(***************************************************************************)
UNSET_FLAG == -1
MAX_MAP_WIDTH == 255
MAX_MAP_HEIGHT == 255
MAP_VERSION == 100000
MAP_MAGIC == <<77, 65, 80, 48>>   \* b'MAP0'

NoFile == <<-1>>                  \* no such file: open() raises

\* the element of a one-element set
Only(S) == CHOOSE x \in S : TRUE

Min(a, b) == IF a < b THEN a ELSE b
Max(a, b) == IF a < b THEN b ELSE a

(***************************************************************************)
(* struct.pack / struct.unpack, little-endian, byte by byte.               *)
(* A negative int32 v is written as the complement of -(v+1).              *)
(***************************************************************************)
LE4(n) == <<n % 256, (n \div 256) % 256, (n \div 65536) % 256, (n \div 16777216) % 256>>

\* struct.pack('<I', v): raises outside 0..2^32-1
struct_pack_I_ok(v) == v >= 0
struct_pack_I(v) == LE4(v)

\* struct.pack('<i', v): raises outside -2^31..2^31-1
struct_pack_i_ok(v) == v >= -2147483647 - 1 /\ v <= 2147483647

\* a faulty packing that drops the sign
struct_pack_i_magnitude(v) == LE4(IF v < 0 THEN -v ELSE v)

struct_pack_i(v) ==
    IF v >= 0 THEN LE4(v)
    ELSE LET c == LE4(-(v + 1)) IN <<255 - c[1], 255 - c[2], 255 - c[3], 255 - c[4]>>

\* struct.pack('<B', v): raises outside 0..255
struct_pack_B_ok(v) == v >= 0 /\ v <= 255

\* struct.unpack('<i', b)[0] of exactly four bytes
struct_unpack_i(b) ==
    IF b[4] < 128
    THEN b[1] + 256 * b[2] + 65536 * b[3] + 16777216 * b[4]
    ELSE -(1 + (255 - b[1]) + 256 * (255 - b[2]) + 65536 * (255 - b[3])
             + 16777216 * (255 - b[4]))

\* a faulty reading of an offset field that assumes the writer's offset
struct_unpack_I_default(b) == 20

\* struct.unpack('<I', b)[0] of exactly four bytes.  A value of 2^31 or more
\* is only ever used as a seek offset, where it lies past the end of every
\* buffer; it is held as 2147483647, which lies past the end as well.
struct_unpack_I(b) ==
    IF b[4] < 128
    THEN b[1] + 256 * b[2] + 65536 * b[3] + 16777216 * b[4]
    ELSE 2147483647

\* a faulty read that fills what the file lacks with zero bytes
f_read_zero_fill(buf, pos, n) ==
    [data |-> [i \in 1..n |-> IF pos + i <= Len(buf) THEN buf[pos + i] ELSE 0],
     pos |-> pos + n]

\* f.seek(pos); f.read(n): the bytes available, and the cursor after them
f_read(buf, pos, n) ==
    LET data == SubSeq(buf, pos + 1, Min(pos + n, Len(buf)))
    IN  [data |-> data, pos |-> pos + Len(data)]

(***************************************************************************)
(* The Project object, as a record P = [map, player, dirty, emitted].      *)
(***************************************************************************)
BoolStr(b) == IF b THEN "True" ELSE "False"

Signal(name, arg) == [sig |-> name, arg |-> arg]

MapData(width, height, tiles) == [width |-> width, height |-> height, tiles |-> tiles]

PlayerData(start_x, start_y, start_angle_x, start_angle_y) ==
    [start_x |-> start_x, start_y |-> start_y,
     start_angle_x |-> start_angle_x, start_angle_y |-> start_angle_y]

\* Project.__init__: MapData() and PlayerData() with every field defaulted
Project_init ==
    [map |-> MapData(UNSET_FLAG, UNSET_FLAG, <<>>),
     player |-> PlayerData(UNSET_FLAG, UNSET_FLAG, UNSET_FLAG, UNSET_FLAG),
     dirty |-> FALSE,
     emitted |-> <<>>]

emit(P, name, arg) == [P EXCEPT !.emitted = Append(@, Signal(name, arg))]

\* a faulty setter that stores the value without emitting dirty_changed
dirty_set_silent(P, value) == [P EXCEPT !.dirty = value]

\* the dirty property setter: stores the value and emits dirty_changed
dirty_set(P, value) == emit([P EXCEPT !.dirty = value], "dirty_changed", BoolStr(value))

\* [0] * n: the empty list when n <= 0
ZeroTiles(n) == [i \in 1..n |-> 0]

\* a faulty new_map that keeps the tiles of a grid of the same size
new_map_keeps_tiles(P, width, height) ==
    emit(dirty_set([P EXCEPT !.map =
                       MapData(width, height,
                               IF Len(P.map.tiles) = width * height THEN P.map.tiles
                               ELSE ZeroTiles(width * height))],
                   TRUE),
         "map_loaded", "")

new_map(P, width, height) ==
    emit(dirty_set([P EXCEPT !.map = MapData(width, height, ZeroTiles(width * height))],
                   TRUE),
         "map_loaded", "")

\* a faulty bounds test that lets x = width through
in_bounds_inclusive(P, x, y) ==
    0 <= x /\ x <= P.map.width /\ 0 <= y /\ y < P.map.height

in_bounds(P, x, y) ==
    0 <= x /\ x < P.map.width /\ 0 <= y /\ y < P.map.height

\* a faulty index that stores the grid row by row
_coord_to_index_row_major(P, x, y) == x + P.map.width * y

_coord_to_index(P, x, y) == y + P.map.height * x

\* a Python list index that raises IndexError
IndexRaises(tiles, index) == index >= Len(tiles) \/ index < -Len(tiles)

\* tiles[index] with Python's negative indices
ListGet(tiles, index) == IF index >= 0 THEN tiles[index + 1] ELSE tiles[Len(tiles) + index + 1]

get_tile_raises(P, x, y) ==
    in_bounds(P, x, y) /\ IndexRaises(P.map.tiles, _coord_to_index(P, x, y))

get_tile(P, x, y) ==
    IF ~in_bounds(P, x, y) THEN -1
    ELSE ListGet(P.map.tiles, _coord_to_index(P, x, y))

set_tile_raises(P, x, y) ==
    in_bounds(P, x, y) /\ IndexRaises(P.map.tiles, _coord_to_index(P, x, y))

\* a faulty set_tile that marks the document dirty for a cell off the grid
set_tile_marks_dirty(P, x, y, tile_id) ==
    IF ~in_bounds(P, x, y) THEN dirty_set(P, TRUE)
    ELSE LET index == _coord_to_index(P, x, y)
             at == IF index >= 0 THEN index + 1 ELSE Len(P.map.tiles) + index + 1
         IN  emit(dirty_set([P EXCEPT !.map.tiles[at] = tile_id], TRUE), "map_changed", "")

set_tile(P, x, y, tile_id) ==
    IF ~in_bounds(P, x, y) THEN P
    ELSE LET index == _coord_to_index(P, x, y)
             at == IF index >= 0 THEN index + 1 ELSE Len(P.map.tiles) + index + 1
         IN  emit(dirty_set([P EXCEPT !.map.tiles[at] = tile_id], TRUE), "map_changed", "")

set_player_start_pos(P, start_x, start_y) ==
    dirty_set([P EXCEPT !.player.start_x = start_x, !.player.start_y = start_y], TRUE)

set_player_start_angle(P, start_angle_x, start_angle_y) ==
    dirty_set([P EXCEPT !.player.start_angle_x = start_angle_x,
                        !.player.start_angle_y = start_angle_y], TRUE)

(***************************************************************************)
(* Project._validate_map_before_save: every rule is evaluated, each        *)
(* appending its message to error_msgs.                                    *)
(***************************************************************************)
MSG_ZERO_SIZE == "Map has zero width or height, cannot save."
MSG_TOO_LARGE == "Map dimensions exceed maximum size of 255x255."
MSG_SIZE_MISMATCH == "Map tile data size does not match width and height."
MSG_NO_TILES == "Map has no tile data to save."
MSG_NO_START_POS == "Player start position is not set."
MSG_NO_START_ANGLE == "Player start angle is not set."

AppendIf(msgs, cond, msg) == IF cond THEN Append(msgs, msg) ELSE msgs

RuleUnsetSize(P) == P.map.width = UNSET_FLAG \/ P.map.height = UNSET_FLAG

RuleTooLarge(P) == P.map.width > MAX_MAP_WIDTH \/ P.map.height > MAX_MAP_HEIGHT

RuleSizeMismatch(P) == Len(P.map.tiles) # P.map.width * P.map.height

RuleNoTiles(P) == Len(P.map.tiles) = 0

\* a faulty rule 5 that fires when either component is unset
RuleNoStartPos_either(P) ==
    P.player.start_x = UNSET_FLAG \/ P.player.start_y = UNSET_FLAG

RuleNoStartPos(P) == P.player.start_x = UNSET_FLAG /\ P.player.start_y = UNSET_FLAG

RuleNoStartAngle(P) ==
    P.player.start_angle_x = UNSET_FLAG /\ P.player.start_angle_y = UNSET_FLAG

_validate_map_before_save(P) ==
    LET m1 == AppendIf(<<>>, RuleUnsetSize(P), MSG_ZERO_SIZE)
        m2 == AppendIf(m1, RuleTooLarge(P), MSG_TOO_LARGE)
        m3 == AppendIf(m2, RuleSizeMismatch(P), MSG_SIZE_MISMATCH)
        m4 == AppendIf(m3, RuleNoTiles(P), MSG_NO_TILES)
        m5 == AppendIf(m4, RuleNoStartPos(P), MSG_NO_START_POS)
        m6 == AppendIf(m5, RuleNoStartAngle(P), MSG_NO_START_ANGLE)
    IN  m6

\* "\n".join(msgs)
RECURSIVE Join(_)
Join(msgs) ==
    IF Len(msgs) = 0 THEN ""
    ELSE IF Len(msgs) = 1 THEN msgs[1]
    ELSE msgs[1] \o "\n" \o Join(Tail(msgs))

(***************************************************************************)
(* export_map_to_xip.  can_open: whether open(filename, "wb") succeeds.    *)
(* The result carries the bytes the file holds when the with-block is      *)
(* left: all of them on success, the ones written before the exception     *)
(* when a struct.pack raises.                                              *)
(***************************************************************************)
MSG_OPEN_FAILED == "[Errno 2] No such file or directory"
MSG_PACK_RANGE_i == "argument out of range"
MSG_PACK_RANGE_B == "ubyte format requires 0 <= number <= 255"
MSG_PACK_COUNT == "pack expected a different number of items for packing"

ExportResult(ok, msg, opened, bytes) ==
    [ok |-> ok, msg |-> msg, opened |-> opened, bytes |-> bytes]

\* a faulty header whose offset fields are written the wrong way round
export_header_swapped ==
    MAP_MAGIC \o struct_pack_I(MAP_VERSION) \o struct_pack_I(36)
      \o struct_pack_I(20) \o <<0, 0, 0, 0>>

export_header ==
    LET playerdata_offset == 20
        mapdata_offset == playerdata_offset + 16
    IN  MAP_MAGIC \o struct_pack_I(MAP_VERSION) \o struct_pack_I(playerdata_offset)
          \o struct_pack_I(mapdata_offset) \o <<0, 0, 0, 0>>

\* the four player fields, in the order they are written
PlayerFields(player_data) ==
    <<player_data.start_x, player_data.start_y,
      player_data.start_angle_x, player_data.start_angle_y>>

\* the player block up to (not including) the first field that cannot be packed
RECURSIVE export_player(_)
export_player(fields) ==
    IF Len(fields) = 0 \/ ~struct_pack_i_ok(Head(fields)) THEN <<>>
    ELSE struct_pack_i(Head(fields)) \o export_player(Tail(fields))

export_map_to_xip(can_open, player_data, map_data) ==
    LET head == export_header
        pl == export_player(PlayerFields(player_data))
        tiles_ok == /\ Len(map_data.tiles) = map_data.width * map_data.height
                    /\ \A i \in 1..Len(map_data.tiles) : struct_pack_B_ok(map_data.tiles[i])
    IN  IF ~can_open THEN ExportResult(FALSE, MSG_OPEN_FAILED, FALSE, <<>>)
        ELSE IF Len(pl) # 16 THEN ExportResult(FALSE, MSG_PACK_RANGE_i, TRUE, head \o pl)
        ELSE IF ~struct_pack_B_ok(map_data.width)
             THEN ExportResult(FALSE, MSG_PACK_RANGE_B, TRUE, head \o pl)
        ELSE IF ~struct_pack_B_ok(map_data.height)
             THEN ExportResult(FALSE, MSG_PACK_RANGE_B, TRUE,
                               head \o pl \o <<map_data.width>>)
        ELSE IF Len(map_data.tiles) # map_data.width * map_data.height
             THEN ExportResult(FALSE, MSG_PACK_COUNT, TRUE,
                               head \o pl \o <<map_data.width, map_data.height>>)
        ELSE IF ~tiles_ok
             THEN ExportResult(FALSE, MSG_PACK_RANGE_B, TRUE,
                               head \o pl \o <<map_data.width, map_data.height>>)
        ELSE ExportResult(TRUE, "", TRUE,
                          head \o pl \o <<map_data.width, map_data.height>> \o map_data.tiles)

(***************************************************************************)
(* import_map_from_xip.  buf: the file's bytes, or NoFile when open()      *)
(* raises.  The result carries the Project as the call leaves it and the   *)
(* number of bytes the call read.                                          *)
(***************************************************************************)
MSG_BAD_MAGIC == "Invalid .xip file: incorrect magic number"
MSG_UNPACK == "unpack requires a buffer of a different size"

\* a faulty magic test that looks at the first three bytes only
magic_ok_prefix(magic) == SubSeq(magic, 1, Min(3, Len(magic))) = SubSeq(MAP_MAGIC, 1, 3)

\* magic == MAP_MAGIC
magic_ok(magic) == magic = MAP_MAGIC

ImportResult(ok, msg, nread, P) == [ok |-> ok, msg |-> msg, nread |-> nread, P |-> P]

import_map_from_xip(buf, P) ==
    LET magic == f_read(buf, 0, 4)
        version_bytes == f_read(buf, magic.pos, 4)
        playerdata_offset_bytes == f_read(buf, version_bytes.pos, 4)
        playerdata_offset == struct_unpack_I(playerdata_offset_bytes.data)
        mapdata_offset_bytes == f_read(buf, playerdata_offset_bytes.pos, 4)
        mapdata_offset == struct_unpack_I(mapdata_offset_bytes.data)
        reserved == f_read(buf, mapdata_offset_bytes.pos, 4)
        start_x_bytes == f_read(buf, playerdata_offset, 4)
        start_y_bytes == f_read(buf, start_x_bytes.pos, 4)
        start_angle_x_bytes == f_read(buf, start_y_bytes.pos, 4)
        start_angle_y_bytes == f_read(buf, start_angle_x_bytes.pos, 4)
        n_header == reserved.pos
        n_player == n_header + Len(start_x_bytes.data) + Len(start_y_bytes.data)
                      + Len(start_angle_x_bytes.data) + Len(start_angle_y_bytes.data)
        P1 == [P EXCEPT !.player = PlayerData(struct_unpack_i(start_x_bytes.data),
                                              struct_unpack_i(start_y_bytes.data),
                                              struct_unpack_i(start_angle_x_bytes.data),
                                              struct_unpack_i(start_angle_y_bytes.data))]
        width_byte == f_read(buf, mapdata_offset, 1)
        height_byte == f_read(buf, width_byte.pos, 1)
        width == width_byte.data[1]
        height == height_byte.data[1]
        tile_count == width * height
        tiles_bytes == f_read(buf, height_byte.pos, tile_count)
        P2 == new_map(P1, width, height)
        P3 == [P2 EXCEPT !.map = MapData(width, height, tiles_bytes.data)]
    IN  IF buf = NoFile THEN ImportResult(FALSE, MSG_OPEN_FAILED, 0, P)
        ELSE IF ~magic_ok(magic.data) THEN ImportResult(FALSE, MSG_BAD_MAGIC, magic.pos, P)
        ELSE IF Len(version_bytes.data) # 4
             THEN ImportResult(FALSE, MSG_UNPACK, version_bytes.pos, P)
        ELSE IF Len(playerdata_offset_bytes.data) # 4
             THEN ImportResult(FALSE, MSG_UNPACK, playerdata_offset_bytes.pos, P)
        ELSE IF Len(mapdata_offset_bytes.data) # 4
             THEN ImportResult(FALSE, MSG_UNPACK, mapdata_offset_bytes.pos, P)
        ELSE IF Len(start_x_bytes.data) # 4
             THEN ImportResult(FALSE, MSG_UNPACK, n_header + Len(start_x_bytes.data), P)
        ELSE IF Len(start_y_bytes.data) # 4
             THEN ImportResult(FALSE, MSG_UNPACK, n_header + 4 + Len(start_y_bytes.data), P)
        ELSE IF Len(start_angle_x_bytes.data) # 4
             THEN ImportResult(FALSE, MSG_UNPACK,
                               n_header + 8 + Len(start_angle_x_bytes.data), P)
        ELSE IF Len(start_angle_y_bytes.data) # 4
             THEN ImportResult(FALSE, MSG_UNPACK, n_player, P)
        ELSE IF Len(width_byte.data) # 1
             THEN ImportResult(FALSE, MSG_UNPACK, n_player, P1)
        ELSE IF Len(height_byte.data) # 1
             THEN ImportResult(FALSE, MSG_UNPACK, n_player + 1, P1)
        ELSE IF Len(tiles_bytes.data) # tile_count
             THEN ImportResult(FALSE, MSG_UNPACK, n_player + 2 + Len(tiles_bytes.data), P1)
        ELSE ImportResult(TRUE, "", n_player + 2 + tile_count, P3)

(***************************************************************************)
(* Project.save_map.  The filename is fixed ("mapdata.xip"); the result    *)
(* of export_map_to_xip is not looked at.                                  *)
(***************************************************************************)
SaveResult(P, exp, error_msgs) == [P |-> P, exp |-> exp, error_msgs |-> error_msgs]

NoExport == ExportResult(TRUE, "", FALSE, <<>>)    \* export_map_to_xip was not called

\* a faulty save_map that reports the first validation message only
save_map_first_only(P, can_open) ==
    LET error_msgs == _validate_map_before_save(P)
        exp == export_map_to_xip(can_open, P.player, P.map)
    IN  IF Len(error_msgs) > 0
        THEN SaveResult(emit(P, "map_saved", error_msgs[1]), NoExport, error_msgs)
        ELSE SaveResult(emit(dirty_set(P, FALSE), "map_saved", ""), exp, error_msgs)

save_map(P, can_open) ==
    LET error_msgs == _validate_map_before_save(P)
        exp == export_map_to_xip(can_open, P.player, P.map)
    IN  IF Len(error_msgs) > 0
        THEN SaveResult(emit(P, "map_saved", Join(error_msgs)), NoExport, error_msgs)
        ELSE SaveResult(emit(dirty_set(P, FALSE), "map_saved", ""), exp, error_msgs)

\* the file after a call that may have opened it for writing
DiskAfter(d, exp) == IF exp.opened THEN exp.bytes ELSE d

(***************************************************************************)
(* The container layout of the xip_utils module docstring: a file image    *)
(* of `size` bytes with the header at 0, the PlayerData section at         *)
(* playerdata_offset and the MapData section at mapdata_offset; bytes that *)
(* belong to no section are zero.                                          *)
(***************************************************************************)
xip_image(playerdata_offset, mapdata_offset, fields, width, height, tiles, size) ==
    [i \in 1..size |->
        LET o == i - 1
            p == o - playerdata_offset
            m == o - mapdata_offset
        IN  IF o < 4 THEN MAP_MAGIC[o + 1]
            ELSE IF o < 8 THEN struct_pack_I(MAP_VERSION)[o - 3]
            ELSE IF o < 12 THEN struct_pack_I(playerdata_offset)[o - 7]
            ELSE IF o < 16 THEN struct_pack_I(mapdata_offset)[o - 11]
            ELSE IF o < 20 THEN 0
            ELSE IF p >= 0 /\ p < 16 THEN struct_pack_i(fields[(p \div 4) + 1])[(p % 4) + 1]
            ELSE IF m = 0 THEN width
            ELSE IF m = 1 THEN height
            ELSE IF m >= 2 /\ m < 2 + Len(tiles) THEN tiles[m - 1]
            ELSE 0]

\* what a container holds, read off the layout
xip_playerdata_offset(buf) == struct_unpack_I(SubSeq(buf, 9, 12))
xip_mapdata_offset(buf) == struct_unpack_I(SubSeq(buf, 13, 16))
xip_field(buf, k) ==
    struct_unpack_i(SubSeq(buf, xip_playerdata_offset(buf) + 4 * k + 1,
                           xip_playerdata_offset(buf) + 4 * k + 4))
xip_player(buf) == PlayerData(xip_field(buf, 0), xip_field(buf, 1),
                              xip_field(buf, 2), xip_field(buf, 3))
xip_width(buf) == buf[xip_mapdata_offset(buf) + 1]
xip_height(buf) == buf[xip_mapdata_offset(buf) + 2]
xip_tiles(buf) ==
    SubSeq(buf, xip_mapdata_offset(buf) + 3,
           xip_mapdata_offset(buf) + 2 + xip_width(buf) * xip_height(buf))

\* a container with its magic, a whole header and both sections whole
xip_well_formed(buf) ==
    /\ buf # NoFile
    /\ Len(buf) >= 20
    /\ SubSeq(buf, 1, 4) = MAP_MAGIC
    /\ xip_playerdata_offset(buf) + 16 <= Len(buf)
    /\ xip_mapdata_offset(buf) + 2 <= Len(buf)
    /\ xip_mapdata_offset(buf) + 2 + xip_width(buf) * xip_height(buf) <= Len(buf)

(***************************************************************************)
(* Bounds and the inputs drawn from them                                   *)
(***************************************************************************)
MaxW == 3       \* the width of the in-range map the Project API creates
MaxH == 2       \* its height

\* new_map arguments: unset, zero, in range, and beyond MAX_MAP_WIDTH
NewMapDims == {<<UNSET_FLAG, UNSET_FLAG>>, <<UNSET_FLAG, MaxH>>, <<0, 0>>, <<0, MaxH>>,
               <<MaxW, 0>>, <<MaxW, MaxH>>, <<MAX_MAP_WIDTH + 1, 1>>}

\* set_tile arguments: two cells inside the MaxW x MaxH map, and cells off each edge
TileCells == {<<MaxW - 1, MaxH - 1>>, <<0, MaxH - 1>>,
              <<-1, 0>>, <<0, -1>>, <<MaxW, 0>>, <<0, MaxH>>}
\* tile ids: one that fits a byte, and 256, which is offered for the last cell only
TileIds == {7, MAX_MAP_WIDTH + 1}

\* get_tile arguments: around a MaxW x MaxH grid and around the widest grid
ProbeXs == (-1..(MaxW + 1)) \cup {MAX_MAP_WIDTH - 1, MAX_MAP_WIDTH, MAX_MAP_WIDTH + 1}
ProbeYs == -1..(MaxH + 1)

FP_A == 16909060            \* 0x01020304
FP_B == 98304               \* 1.5
FP_DIAG == 46341            \* round(65536 / sqrt(2))

StartXs == {FP_A}
StartYs == {UNSET_FLAG, FP_B}
AngleXs == {-FP_DIAG}
AngleYs == {UNSET_FLAG, FP_DIAG}

\* files offered to import_map_from_xip besides the one save_map wrote
FileFields == <<FP_A, FP_B, -FP_DIAG, FP_DIAG>>
FileTiles == <<1, 2, 3, 4>>
FileDefault == xip_image(20, 36, FileFields, 2, 2, FileTiles, 42)
FileMoved == xip_image(28, 20, FileFields, 2, 2, FileTiles, 44)
FileBadMagic == [FileDefault EXCEPT ![4] = 49]
FileShortHeader == SubSeq(FileDefault, 1, 10)
FileShortPlayer == SubSeq(FileDefault, 1, 30)
FileShortTiles == SubSeq(FileDefault, 1, 41)
FileNoMap == SubSeq(FileDefault, 1, 36)
FileFarOffset == xip_image(20, 300, FileFields, 2, 2, FileTiles, 42)
FileTiny == SubSeq(FileDefault, 1, 2)
\* sections at 44 and 64; at 20 and 36, where a writer puts them, lie the
\* sections of another document
FileDecoy ==
    [i \in 1..70 |->
        IF i > 20 /\ i <= 41
        THEN xip_image(20, 36, <<1, 2, 3, 4>>, 3, 1, <<9, 9, 9>>, 41)[i]
        ELSE xip_image(44, 64, FileFields, 2, 2, FileTiles, 70)[i]]

CraftedFiles == {FileDefault, FileMoved, FileBadMagic, FileShortHeader, FileShortPlayer,
                 FileShortTiles, FileNoMap, FileFarOffset, FileTiny, FileDecoy, NoFile}

(***************************************************************************)
(* State plumbing                                                          *)
(***************************************************************************)
Proj == [map |-> map, player |-> player, dirty |-> dirty, emitted |-> <<>>]

Commit(P) ==
    \E Q \in {P} :
        /\ map' = Q.map
        /\ player' = Q.player
        /\ dirty' = Q.dirty
        /\ emitted' = Q.emitted

Op(name, args) == [name |-> name, args |-> args]

\* what the last call returned: its success flag and message, the number of
\* bytes it read, whether it opened the output file for writing, and, for a
\* conversion, the value it returned
NoRet == [ok |-> TRUE, msg |-> "", nread |-> 0, opened |-> FALSE, value |-> <<>>]

Ret(r) == [ok |-> r.ok, msg |-> r.msg, nread |-> r.nread, opened |-> FALSE, value |-> <<>>]

\* the widgets after MapEditorMainWindow.__init__ (QSpinBox.setRange(16, 255)
\* clamps the default value 0 to 16; the canvas starts in tile mode)
ui_init ==
    [map_width_sb |-> 16, map_height_sb |-> 16, player_angle_sb |-> 0,
     spawn_place_mode |-> FALSE, selected_tile_id |-> 1, mouse_down |-> FALSE,
     last_emitted_tile |-> <<-1, -1>>, last_emitted_tile_id |-> -1]

(***************************************************************************)
(* ProjectSpec: the Project API and the codec, called directly             *)
(***************************************************************************)
ProjectInit ==
    /\ map = Project_init.map
    /\ player = Project_init.player
    /\ dirty = Project_init.dirty
    /\ emitted = <<>>
    /\ disk = NoFile
    /\ op = Op("__init__", <<>>)
    /\ ret = NoRet
    /\ file = <<>>
    /\ ui = ui_init

NewMap(width, height) ==
    /\ Commit(new_map(Proj, width, height))
    /\ op' = Op("new_map", <<width, height>>)
    /\ ret' = NoRet
    /\ file' = <<>>
    /\ UNCHANGED <<disk, ui>>

SetTile(x, y, tile_id) ==
    /\ ~set_tile_raises(Proj, x, y)
    /\ Commit(set_tile(Proj, x, y, tile_id))
    /\ op' = Op("set_tile", <<x, y, tile_id>>)
    /\ ret' = NoRet
    /\ file' = <<>>
    /\ UNCHANGED <<disk, ui>>

SetPlayerStartPos(start_x, start_y) ==
    /\ Commit(set_player_start_pos(Proj, start_x, start_y))
    /\ op' = Op("set_player_start_pos", <<start_x, start_y>>)
    /\ ret' = NoRet
    /\ file' = <<>>
    /\ UNCHANGED <<disk, ui>>

SetPlayerStartAngle(start_angle_x, start_angle_y) ==
    /\ Commit(set_player_start_angle(Proj, start_angle_x, start_angle_y))
    /\ op' = Op("set_player_start_angle", <<start_angle_x, start_angle_y>>)
    /\ ret' = NoRet
    /\ file' = <<>>
    /\ UNCHANGED <<disk, ui>>

SaveMap(can_open) ==
    \E s \in {save_map(Proj, can_open)} :
        /\ Commit(s.P)
        /\ disk' = DiskAfter(disk, s.exp)
        /\ op' = Op("save_map", <<>>)
        /\ ret' = [ok |-> s.exp.ok, msg |-> s.exp.msg, nread |-> 0, opened |-> s.exp.opened,
                   value |-> <<>>]
        /\ file' = <<>>
        /\ UNCHANGED ui

ImportMap(buf) ==
    \E r \in {import_map_from_xip(buf, Proj)} :
        /\ Commit(r.P)
        /\ op' = Op("import_map_from_xip", <<>>)
        /\ ret' = Ret(r)
        /\ file' = buf
        /\ UNCHANGED <<disk, ui>>

ProjectNext ==
    \/ \E d \in NewMapDims : NewMap(d[1], d[2])
    \/ \E c \in TileCells, tile_id \in TileIds :
           /\ (tile_id = MAX_MAP_WIDTH + 1) => (c = <<MaxW - 1, MaxH - 1>>)
           /\ SetTile(c[1], c[2], tile_id)
    \/ \E start_x \in StartXs, start_y \in StartYs : SetPlayerStartPos(start_x, start_y)
    \/ \E ax \in AngleXs, ay \in AngleYs : SetPlayerStartAngle(ax, ay)
    \/ \E can_open \in BOOLEAN : SaveMap(can_open)
    \/ \E buf \in CraftedFiles \cup {disk} : ImportMap(buf)

ProjectSpec == ProjectInit /\ [][ProjectNext]_vars

(***************************************************************************)
(* Properties of the Project API and the codec, stated over ProjectSpec    *)
(***************************************************************************)
Int32(v) == v >= -2147483647 - 1 /\ v <= 2147483647

\* the valid documents of the round-trip property
ValidDocument(P) ==
    /\ P.map.width \in 0..255
    /\ P.map.height \in 0..255
    /\ Len(P.map.tiles) = P.map.width * P.map.height
    /\ \A i \in 1..Len(P.map.tiles) : P.map.tiles[i] \in 0..255
    /\ \A v \in {P.player.start_x, P.player.start_y,
                 P.player.start_angle_x, P.player.start_angle_y} :
           v # UNSET_FLAG /\ Int32(v)

\* the messages of a validation result, as a set
MessageSet(msgs) == {msgs[i] : i \in 1..Len(msgs)}

\* C1: whenever the document is valid, exporting it and importing the bytes
\* produced into a fresh Project succeeds and gives the same width, height,
\* tile sequence and the same four spawn fields.
C1_RoundTrip ==
    ValidDocument(Proj) =>
        \E exp \in {export_map_to_xip(TRUE, player, map)} :
            /\ exp.ok
            /\ \E r \in {import_map_from_xip(exp.bytes, Project_init)} :
                   /\ r.ok
                   /\ r.P.map.width = map.width
                   /\ r.P.map.height = map.height
                   /\ r.P.map.tiles = map.tiles
                   /\ r.P.player.start_x = player.start_x
                   /\ r.P.player.start_y = player.start_y
                   /\ r.P.player.start_angle_x = player.start_angle_x
                   /\ r.P.player.start_angle_y = player.start_angle_y

\* C1 happens: the file save_map wrote has been imported, and the document
\* is a valid MaxW x MaxH map with a painted tile and a negative spawn field.
C1_Witness ==
    /\ op.name = "import_map_from_xip"
    /\ ret.ok
    /\ file = disk
    /\ ValidDocument(Proj)
    /\ map.width = MaxW
    /\ map.height = MaxH
    /\ \E i \in 1..Len(map.tiles) : map.tiles[i] # 0
    /\ player.start_angle_x < 0

\* C4: right after import_map_from_xip returned success, dirty is false.
C4_CleanAfterLoad ==
    (op.name = "import_map_from_xip" /\ ret.ok) => ~dirty

\* C5: dirty goes from true to false only in a save_map step whose
\* export_map_to_xip call returned success.
C5_ClearedOnlyBySuccessfulSave ==
    [][(dirty /\ ~dirty') => (op'.name = "save_map" /\ ret'.ok /\ ret'.opened)]_vars

\* C6: a save_map step taken while validation returns a message opens no
\* file and leaves the file on disk, dirty, the map and the spawn as they
\* were, and its one signal is map_saved carrying all the messages joined.
C6_SaveRefused ==
    [][(op'.name = "save_map" /\ Len(_validate_map_before_save(Proj)) > 0) =>
          /\ ~ret'.opened
          /\ disk' = disk
          /\ dirty' = dirty
          /\ map' = map
          /\ player' = player
          /\ emitted' = <<Signal("map_saved", Join(_validate_map_before_save(Proj)))>>
          /\ emitted'[1].arg # ""]_vars

\* C6 happens: a dirty document with two or more validation messages has
\* just been refused, with an earlier save's file still on disk.
C6_Witness ==
    /\ op.name = "save_map"
    /\ dirty
    /\ Len(_validate_map_before_save(Proj)) >= 2
    /\ Len(emitted) = 1
    /\ emitted[1].sig = "map_saved"
    /\ emitted[1].arg # ""
    /\ disk # NoFile

\* C7: the validation result holds the message of each of the six rules
\* exactly when that rule's condition holds.
C7_RulesIndependent ==
    \E S \in {MessageSet(_validate_map_before_save(Proj))} :
        /\ (MSG_ZERO_SIZE \in S) <=> (map.width = -1 \/ map.height = -1)
        /\ (MSG_TOO_LARGE \in S) <=> (map.width > 255 \/ map.height > 255)
        /\ (MSG_SIZE_MISMATCH \in S) <=> (Len(map.tiles) # map.width * map.height)
        /\ (MSG_NO_TILES \in S) <=> (Len(map.tiles) = 0)
        /\ (MSG_NO_START_POS \in S) <=> (player.start_x = -1 /\ player.start_y = -1)
        /\ (MSG_NO_START_ANGLE \in S) <=>
               (player.start_angle_x = -1 /\ player.start_angle_y = -1)
        /\ Len(_validate_map_before_save(Proj)) = Cardinality(S)

\* C7 happens: a position and an angle with exactly one component unset,
\* in a document that breaks three other rules.
C7_Witness ==
    /\ player.start_x # -1
    /\ player.start_y = -1
    /\ player.start_angle_x # -1
    /\ player.start_angle_y = -1
    /\ MessageSet(_validate_map_before_save(Proj)) =
           {MSG_ZERO_SIZE, MSG_SIZE_MISMATCH, MSG_NO_TILES}

\* C8: a document with width 0, no tiles and an unset spawn position and
\* angle gets at least four distinct validation messages.
C8_FourMessages ==
    (/\ map.width = 0
     /\ Len(map.tiles) = 0
     /\ player.start_x = UNSET_FLAG /\ player.start_y = UNSET_FLAG
     /\ player.start_angle_x = UNSET_FLAG /\ player.start_angle_y = UNSET_FLAG)
    => Cardinality(MessageSet(_validate_map_before_save(Proj))) >= 4

\* C9: a failing import_map_from_xip step leaves the width, height, tiles
\* and the four spawn fields as they were.
C9_ImportAllOrNothing ==
    [][(op'.name = "import_map_from_xip" /\ ~ret'.ok) =>
          (map' = map /\ player' = player)]_vars

\* C10: importing a buffer whose first four bytes are not "MAP0" fails with
\* the magic-number message, reads no more than the four magic bytes and
\* leaves the document as it was.
C10_MagicRejected ==
    [][(/\ op'.name = "import_map_from_xip"
        /\ file' # NoFile
        /\ SubSeq(file', 1, Min(4, Len(file'))) # <<77, 65, 80, 48>>) =>
          /\ ~ret'.ok
          /\ ret'.msg = "Invalid .xip file: incorrect magic number"
          /\ ret'.nread <= 4
          /\ map' = map
          /\ player' = player
          /\ dirty' = dirty]_vars

\* C10 happens: a whole container with one wrong magic byte has just been
\* refused by a Project holding a painted MaxW x MaxH map.
C10_Witness ==
    /\ op.name = "import_map_from_xip"
    /\ file = FileBadMagic
    /\ Len(file) = Len(FileDefault)
    /\ ~ret.ok
    /\ ret.nread = 4
    /\ map.width = MaxW
    /\ \E i \in 1..Len(map.tiles) : map.tiles[i] # 0

\* a container with a whole header, a whole PlayerData section and the width
\* and height bytes, but fewer than width * height bytes after them
xip_truncated_tiles(buf) ==
    /\ buf # NoFile
    /\ Len(buf) >= 20
    /\ SubSeq(buf, 1, 4) = <<77, 65, 80, 48>>
    /\ xip_playerdata_offset(buf) + 16 <= Len(buf)
    /\ xip_mapdata_offset(buf) + 2 <= Len(buf)
    /\ xip_mapdata_offset(buf) + 2 + xip_width(buf) * xip_height(buf) > Len(buf)

\* C11: importing a container whose map section holds fewer than
\* width * height tile bytes fails and leaves the map as it was; and no
\* import returns success with other than width * height tiles.
C11_TruncatedTilesRejected ==
    [][(op'.name = "import_map_from_xip") =>
          /\ xip_truncated_tiles(file') => (~ret'.ok /\ map' = map)
          /\ ret'.ok => Len(map'.tiles) = map'.width * map'.height]_vars

\* C11 happens: a 2x2 container cut one tile byte short has just been
\* refused after its header, player section, width and height were read.
C11_Witness ==
    /\ op.name = "import_map_from_xip"
    /\ file = FileShortTiles
    /\ xip_truncated_tiles(file)
    /\ xip_width(file) * xip_height(file) = 4
    /\ Len(file) = xip_mapdata_offset(file) + 2 + 3
    /\ ~ret.ok
    /\ ret.nread = 20 + 16 + 2 + 3

\* C12: importing a well-formed container succeeds and leaves the spawn
\* fields found at the header's PlayerData offset and the width, height and
\* tiles found at the header's MapData offset; for the containers whose
\* sections are not at 20 and 36 these are the values placed there.
C12_FollowsHeaderOffsets ==
    (op.name = "import_map_from_xip" /\ xip_well_formed(file)) =>
        /\ ret.ok
        /\ player = xip_player(file)
        /\ map = MapData(xip_width(file), xip_height(file), xip_tiles(file))
        /\ file \in {FileMoved, FileDecoy} =>
               /\ player = PlayerData(FP_A, FP_B, -FP_DIAG, FP_DIAG)
               /\ map = MapData(2, 2, <<1, 2, 3, 4>>)

\* C12 happens: a container with its sections at 44 and 64, and other
\* sections lying at 20 and 36, has just been imported.
C12_Witness ==
    /\ op.name = "import_map_from_xip"
    /\ file = FileDecoy
    /\ xip_playerdata_offset(file) = 44
    /\ xip_mapdata_offset(file) = 64
    /\ file[37] = 3
    /\ ret.ok
    /\ map.width = 2

\* C12 happens as well with the MapData section placed before the
\* PlayerData section and a gap between them.
C12_WitnessReversed ==
    /\ op.name = "import_map_from_xip"
    /\ file = FileMoved
    /\ xip_mapdata_offset(file) < xip_playerdata_offset(file)
    /\ ret.ok

\* C13: whenever export_map_to_xip encodes the document, the bytes are
\* 'MAP0', 100000, 20, 36 and four zero bytes, the four spawn fields as
\* little-endian int32 from byte 20, then from byte 36 the width, the height
\* and the tiles in buffer order, 38 + width * height bytes in all; and that
\* is what a successful save_map leaves on disk.
C13_ExportLayout ==
    \E exp \in {export_map_to_xip(TRUE, player, map)} :
        /\ exp.ok =>
               /\ Len(exp.bytes) = 38 + map.width * map.height
               /\ \A i \in 1..Len(exp.bytes) : exp.bytes[i] \in 0..255
               /\ SubSeq(exp.bytes, 1, 20) =
                      <<77, 65, 80, 48, 160, 134, 1, 0, 20, 0, 0, 0, 36, 0, 0, 0, 0, 0, 0, 0>>
               /\ struct_unpack_i(SubSeq(exp.bytes, 21, 24)) = player.start_x
               /\ struct_unpack_i(SubSeq(exp.bytes, 25, 28)) = player.start_y
               /\ struct_unpack_i(SubSeq(exp.bytes, 29, 32)) = player.start_angle_x
               /\ struct_unpack_i(SubSeq(exp.bytes, 33, 36)) = player.start_angle_y
               /\ exp.bytes[37] = map.width
               /\ exp.bytes[38] = map.height
               /\ SubSeq(exp.bytes, 39, Len(exp.bytes)) = map.tiles
               /\ exp.bytes = xip_image(20, 36, PlayerFields(player), map.width,
                                        map.height, map.tiles, 38 + map.width * map.height)
        /\ (op.name = "save_map" /\ ret.opened /\ ret.ok) => (exp.ok /\ disk = exp.bytes)

\* C13 happens: save_map has just written a MaxW x MaxH map with a painted
\* tile and a negative spawn field.
C13_Witness ==
    /\ op.name = "save_map"
    /\ ret.opened
    /\ ret.ok
    /\ Len(disk) = 38 + MaxW * MaxH
    /\ map.width = MaxW
    /\ \E i \in 1..Len(map.tiles) : map.tiles[i] # 0
    /\ player.start_angle_x < 0

\* C14: a document whose width or height lies outside 0..255 (its tiles
\* being width * height bytes) is still encoded, with the width and the
\* height each written modulo 256.
C14_ExportMasksSize ==
    (/\ map.width \notin 0..255 \/ map.height \notin 0..255
     /\ Len(map.tiles) = map.width * map.height
     /\ \A i \in 1..Len(map.tiles) : map.tiles[i] \in 0..255) =>
        \E exp \in {export_map_to_xip(TRUE, player, map)} :
            /\ exp.ok
            /\ exp.bytes[37] = map.width % 256
            /\ exp.bytes[38] = map.height % 256

\* C15: a save_map call in which export_map_to_xip returned failure does not
\* emit map_saved with the empty success message.
C15_FailedWriteNotReportedAsSuccess ==
    (op.name = "save_map" /\ ~ret.ok) =>
        \A i \in 1..Len(emitted) : emitted[i] # Signal("map_saved", "")

\* C16: after a new_map, set_player_start_pos or set_player_start_angle
\* step, and after a set_tile step on a cell inside the grid, dirty is true
\* and the step emitted dirty_changed with true.
C16_MutationMarksDirty ==
    [][(\/ op'.name \in {"new_map", "set_player_start_pos", "set_player_start_angle"}
        \/ op'.name = "set_tile" /\ 0 <= op'.args[1] /\ op'.args[1] < map.width
                                 /\ 0 <= op'.args[2] /\ op'.args[2] < map.height) =>
          /\ dirty'
          /\ \E i \in 1..Len(emitted') : emitted'[i] = Signal("dirty_changed", "True")]_vars

\* C16 happens: set_tile has just painted a cell of a saved map, so that the
\* document on disk no longer equals the one in memory.
C16_Witness ==
    /\ op.name = "set_tile"
    /\ in_bounds(Proj, op.args[1], op.args[2])
    /\ get_tile(Proj, op.args[1], op.args[2]) = op.args[3]
    /\ dirty
    /\ emitted = <<Signal("dirty_changed", "True"), Signal("map_changed", "")>>
    /\ xip_well_formed(disk)
    /\ xip_width(disk) = map.width
    /\ xip_tiles(disk) # map.tiles

\* C17: get_tile(x, y) never raises; for 0 <= x < width and 0 <= y < height
\* it returns the tile stored at index y + height * x, which lies inside the
\* buffer, and otherwise it returns -1.
C17_GetTileTotal ==
    \A x \in ProbeXs, y \in ProbeYs :
        /\ ~get_tile_raises(Proj, x, y)
        /\ IF 0 <= x /\ x < map.width /\ 0 <= y /\ y < map.height
           THEN /\ y + map.height * x \in 0..(Len(map.tiles) - 1)
                /\ get_tile(Proj, x, y) = map.tiles[y + map.height * x + 1]
           ELSE get_tile(Proj, x, y) = -1

\* C17 happens: on the 2x2 map just imported, get_tile returns the stored
\* tiles inside the grid and -1 off each edge.
C17_Witness ==
    /\ op.name = "import_map_from_xip"
    /\ ret.ok
    /\ map.width = 2
    /\ get_tile(Proj, 1, 0) = 3
    /\ get_tile(Proj, 0, 1) = 2
    /\ get_tile(Proj, 2, 0) = -1
    /\ get_tile(Proj, 0, 2) = -1
    /\ get_tile(Proj, -1, 0) = -1
    /\ get_tile(Proj, 0, -1) = -1

\* C17 happens as well on the grid of a fresh Project and on one that
\* new_map made with negative sizes: every get_tile returns -1.
C17_WitnessNoGrid ==
    /\ map.width < 0
    /\ Len(map.tiles) > 0
    /\ \A x \in ProbeXs, y \in ProbeYs : get_tile(Proj, x, y) = -1

\* the Project as a step leaves it
ProjAfter == [map |-> map', player |-> player', dirty |-> dirty', emitted |-> emitted']

\* the probed cells that lie inside the grid
ProbeCellsInside ==
    {c \in ProbeXs \X ProbeYs :
        0 <= c[1] /\ c[1] < map.width /\ 0 <= c[2] /\ c[2] < map.height}

\* C18: a set_tile(x, y, v) step on a cell inside a width x height grid
\* writes v at buffer index y + height * x and nowhere else, so get_tile(x, y)
\* then returns v and every other cell reads as before; distinct cells inside
\* the grid have distinct indices within 0..width*height-1.
C18_ColumnMajor ==
    /\ [](\E inside \in {ProbeCellsInside} :
             \A c \in inside :
                 /\ c[2] + map.height * c[1] \in 0..(map.width * map.height - 1)
                 /\ \A d \in inside :
                        (c[2] + map.height * c[1] = d[2] + map.height * d[1]) => c = d)
    /\ [][(/\ op'.name = "set_tile"
           /\ 0 <= op'.args[1] /\ op'.args[1] < map.width
           /\ 0 <= op'.args[2] /\ op'.args[2] < map.height) =>
             /\ map'.tiles = [map.tiles EXCEPT
                                 ![op'.args[2] + map.height * op'.args[1] + 1] = op'.args[3]]
             /\ map'.width = map.width
             /\ map'.height = map.height
             /\ get_tile(ProjAfter, op'.args[1], op'.args[2]) = op'.args[3]
             /\ \A c \in ProbeCellsInside :
                    c # <<op'.args[1], op'.args[2]>> =>
                        get_tile(ProjAfter, c[1], c[2]) = get_tile(Proj, c[1], c[2])]_vars

\* C18 happens: on a MaxW x MaxH grid set_tile(0, MaxH - 1, 7) has just
\* written index MaxH - 1, and cell (MaxW - 1, MaxH - 1), painted earlier,
\* still reads back from the last index.
C18_Witness ==
    /\ op = Op("set_tile", <<0, MaxH - 1, 7>>)
    /\ map.width = MaxW
    /\ map.height = MaxH
    /\ map.tiles[MaxH] = 7
    /\ get_tile(Proj, 0, MaxH - 1) = 7
    /\ map.tiles[MaxW * MaxH] = 7
    /\ get_tile(Proj, MaxW - 1, MaxH - 1) = 7
    /\ \A i \in 1..Len(map.tiles) : i \notin {MaxH, MaxW * MaxH} => map.tiles[i] = 0

\* C19: a set_tile step on a cell off the grid (x < 0, y < 0, x >= width or
\* y >= height, which is every cell of an uninitialized grid) leaves the
\* tiles, width, height, spawn and dirty as they were and emits nothing.
C19_SetTileOutsideNoOp ==
    [][(/\ op'.name = "set_tile"
        /\ \/ op'.args[1] < 0 \/ op'.args[1] >= map.width
           \/ op'.args[2] < 0 \/ op'.args[2] >= map.height) =>
          /\ map' = map
          /\ player' = player
          /\ dirty' = dirty
          /\ emitted' = <<>>]_vars

\* C19 happens: set_tile(MaxW, 0, 7) has just been called on a saved, clean
\* MaxW x MaxH map, which is still clean and still equal to the file.
C19_Witness ==
    /\ op = Op("set_tile", <<MaxW, 0, 7>>)
    /\ map.width = MaxW
    /\ map.height = MaxH
    /\ ~dirty
    /\ emitted = <<>>
    /\ xip_well_formed(disk)
    /\ xip_tiles(disk) = map.tiles

\* C19 happens as well on the uninitialized grid of a fresh Project.
C19_WitnessNoGrid ==
    /\ op.name = "set_tile"
    /\ map = Project_init.map
    /\ ~dirty
    /\ emitted = <<>>

\* C20 as stated: a new_map(width, height) step leaves the given width and
\* height, exactly width * height tiles, all zero, and the spawn unchanged.
C20_NewMapHoldsProduct ==
    [][(op'.name = "new_map") =>
          /\ map'.width = op'.args[1]
          /\ map'.height = op'.args[2]
          /\ Len(map'.tiles) = op'.args[1] * op'.args[2]
          /\ \A i \in 1..Len(map'.tiles) : map'.tiles[i] = 0
          /\ player' = player]_vars

\* C20, amended: a new_map(width, height) step leaves the given width and
\* height, max(0, width * height) tiles, all zero, and the spawn unchanged;
\* so len(tiles) = width * height holds afterwards exactly when
\* width * height >= 0.
C20_NewMapZeroed ==
    [][(op'.name = "new_map") =>
          /\ map'.width = op'.args[1]
          /\ map'.height = op'.args[2]
          /\ Len(map'.tiles) = Max(0, op'.args[1] * op'.args[2])
          /\ \A i \in 1..Len(map'.tiles) : map'.tiles[i] = 0
          /\ (Len(map'.tiles) = map'.width * map'.height) <=>
                 (op'.args[1] * op'.args[2] >= 0)
          /\ player' = player]_vars

\* C20 happens: new_map(MaxW, MaxH) has just replaced the grid of a document
\* whose spawn was set and whose file on disk holds a painted grid of the
\* same size.
C20_Witness ==
    /\ op = Op("new_map", <<MaxW, MaxH>>)
    /\ Len(map.tiles) = MaxW * MaxH
    /\ \A i \in 1..Len(map.tiles) : map.tiles[i] = 0
    /\ player = PlayerData(FP_A, FP_B, -FP_DIAG, FP_DIAG)
    /\ xip_well_formed(disk)
    /\ xip_width(disk) = MaxW
    /\ \E i \in 1..(MaxW * MaxH) : xip_tiles(disk)[i] # 0

\* C20, amended, happens for a negative product: new_map(-1, MaxH) has left
\* width -1, height MaxH and no tiles.
C20_WitnessNegative ==
    /\ op = Op("new_map", <<-1, MaxH>>)
    /\ map.width * map.height < 0
    /\ Len(map.tiles) = 0

\* a clean document is never painted (refuted by every run that paints one)
C16_NeverFromClean ==
    [][~(~dirty /\ op'.name \in {"set_tile", "new_map", "set_player_start_pos",
                                  "set_player_start_angle"})]_vars

\* C25: every document on which _validate_map_before_save returns an empty
\* list is encoded by export_map_to_xip without error when the file can be
\* opened for writing.
C25_ValidatedIsEncodable ==
    (Len(_validate_map_before_save(Proj)) = 0) =>
        export_map_to_xip(TRUE, player, map).ok

(***************************************************************************)
(* fixed_point.py.  A float v is held as the integer trunc(v * 2^20): the  *)
(* canvas positions (pixel / 16) and -1.0, 0.0, 1.0 are exact in it.       *)
(* CosTable and SinTable hold math.cos(math.radians(d)) and                *)
(* math.sin(math.radians(d)) this way for d = 0..359.                      *)
(***************************************************************************)
FIXED15_16_ONE == 65536

CosTable ==
    <<1048576, 1048416, 1047937, 1047138, 1046021, 1044585, 1042831, 1040760, 1038371,
      1035666, 1032645, 1029310, 1025662, 1021701, 1017428, 1012846, 1007955, 1002758,
      997255, 991448, 985339, 978930, 972222, 965219, 957921, 950332, 942453, 934288,
      925837, 917105, 908093, 898805, 889242, 879409, 869308, 858943, 848315, 837430,
      826289, 814896, 803255, 791370, 779243, 766879, 754282, 741455, 728402, 715127,
      701634, 687927, 674011, 659890, 645567, 631048, 616337, 601438, 586356, 571095,
      555660, 540056, 524288, 508359, 492276, 476043, 459665, 443147, 426494, 409711,
      392803, 375776, 358634, 341382, 324027, 306573, 289026, 271391, 253673, 235878,
      218011, 200077, 182083, 164033, 145933, 127789, 109606, 91389, 73144, 54878, 36594,
      18300, 0, -18300, -36594, -54878, -73144, -91389, -109606, -127789, -145933, -164033,
      -182083, -200077, -218011, -235878, -253673, -271391, -289026, -306573, -324027,
      -341382, -358634, -375776, -392803, -409711, -426494, -443147, -459665, -476043,
      -492276, -508359, -524287, -540056, -555660, -571095, -586356, -601438, -616337,
      -631048, -645567, -659890, -674011, -687927, -701634, -715127, -728402, -741455,
      -754282, -766879, -779243, -791370, -803255, -814896, -826289, -837430, -848315,
      -858943, -869308, -879409, -889242, -898805, -908093, -917105, -925837, -934288,
      -942453, -950332, -957921, -965219, -972222, -978930, -985339, -991448, -997255,
      -1002758, -1007955, -1012846, -1017428, -1021701, -1025662, -1029310, -1032645,
      -1035666, -1038371, -1040760, -1042831, -1044585, -1046021, -1047138, -1047937,
      -1048416, -1048576, -1048416, -1047937, -1047138, -1046021, -1044585, -1042831,
      -1040760, -1038371, -1035666, -1032645, -1029310, -1025662, -1021701, -1017428,
      -1012846, -1007955, -1002758, -997255, -991448, -985339, -978930, -972222, -965219,
      -957921, -950332, -942453, -934288, -925837, -917105, -908093, -898805, -889242,
      -879409, -869308, -858943, -848315, -837430, -826289, -814896, -803255, -791370,
      -779243, -766879, -754282, -741455, -728402, -715127, -701634, -687927, -674011,
      -659890, -645567, -631048, -616337, -601438, -586356, -571095, -555660, -540056,
      -524288, -508359, -492276, -476043, -459665, -443147, -426494, -409711, -392803,
      -375776, -358634, -341382, -324027, -306573, -289026, -271391, -253673, -235878,
      -218011, -200077, -182083, -164033, -145933, -127789, -109606, -91389, -73144, -54878,
      -36594, -18300, 0, 18300, 36594, 54878, 73144, 91389, 109606, 127789, 145933, 164033,
      182083, 200077, 218011, 235878, 253673, 271391, 289026, 306573, 324027, 341382,
      358634, 375776, 392803, 409711, 426494, 443147, 459665, 476043, 492276, 508359,
      524288, 540056, 555660, 571095, 586356, 601438, 616337, 631048, 645567, 659890,
      674011, 687927, 701634, 715127, 728402, 741455, 754282, 766879, 779243, 791370,
      803255, 814896, 826289, 837430, 848315, 858943, 869308, 879409, 889242, 898805,
      908093, 917105, 925837, 934288, 942453, 950332, 957921, 965219, 972222, 978930,
      985339, 991448, 997255, 1002758, 1007955, 1012846, 1017428, 1021701, 1025662, 1029310,
      1032645, 1035666, 1038371, 1040760, 1042831, 1044585, 1046021, 1047138, 1047937,
      1048416>>

SinTable ==
    <<0, 18300, 36594, 54878, 73144, 91389, 109606, 127789, 145933, 164033, 182083, 200077,
      218011, 235878, 253673, 271391, 289026, 306573, 324027, 341382, 358634, 375776,
      392803, 409711, 426494, 443147, 459665, 476043, 492276, 508359, 524287, 540056,
      555660, 571095, 586356, 601438, 616337, 631048, 645567, 659890, 674011, 687927,
      701634, 715127, 728402, 741455, 754282, 766879, 779243, 791370, 803255, 814896,
      826289, 837430, 848315, 858943, 869308, 879409, 889242, 898805, 908093, 917105,
      925837, 934288, 942453, 950332, 957921, 965219, 972222, 978930, 985339, 991448,
      997255, 1002758, 1007955, 1012846, 1017428, 1021701, 1025662, 1029310, 1032645,
      1035666, 1038371, 1040760, 1042831, 1044585, 1046021, 1047138, 1047937, 1048416,
      1048576, 1048416, 1047937, 1047138, 1046021, 1044585, 1042831, 1040760, 1038371,
      1035666, 1032645, 1029310, 1025662, 1021701, 1017428, 1012846, 1007955, 1002758,
      997255, 991448, 985339, 978930, 972222, 965219, 957921, 950332, 942453, 934288,
      925837, 917105, 908093, 898805, 889242, 879409, 869308, 858943, 848315, 837430,
      826289, 814896, 803255, 791370, 779243, 766879, 754282, 741455, 728402, 715127,
      701634, 687927, 674011, 659890, 645567, 631048, 616337, 601438, 586356, 571095,
      555660, 540056, 524287, 508359, 492276, 476043, 459665, 443147, 426494, 409711,
      392803, 375776, 358634, 341382, 324027, 306573, 289026, 271391, 253673, 235878,
      218011, 200077, 182083, 164033, 145933, 127789, 109606, 91389, 73144, 54878, 36594,
      18300, 0, -18300, -36594, -54878, -73144, -91389, -109606, -127789, -145933, -164033,
      -182083, -200077, -218011, -235878, -253673, -271391, -289026, -306573, -324027,
      -341382, -358634, -375776, -392803, -409711, -426494, -443147, -459665, -476043,
      -492276, -508359, -524288, -540056, -555660, -571095, -586356, -601438, -616337,
      -631048, -645567, -659890, -674011, -687927, -701634, -715127, -728402, -741455,
      -754282, -766879, -779243, -791370, -803255, -814896, -826289, -837430, -848315,
      -858943, -869308, -879409, -889242, -898805, -908093, -917105, -925837, -934288,
      -942453, -950332, -957921, -965219, -972222, -978930, -985339, -991448, -997255,
      -1002758, -1007955, -1012846, -1017428, -1021701, -1025662, -1029310, -1032645,
      -1035666, -1038371, -1040760, -1042831, -1044585, -1046021, -1047138, -1047937,
      -1048416, -1048576, -1048416, -1047937, -1047138, -1046021, -1044585, -1042831,
      -1040760, -1038371, -1035666, -1032645, -1029310, -1025662, -1021701, -1017428,
      -1012846, -1007955, -1002758, -997255, -991448, -985339, -978930, -972222, -965219,
      -957921, -950332, -942453, -934288, -925837, -917105, -908093, -898805, -889242,
      -879409, -869308, -858943, -848315, -837430, -826289, -814896, -803255, -791370,
      -779243, -766879, -754282, -741455, -728402, -715127, -701634, -687927, -674011,
      -659890, -645567, -631048, -616337, -601438, -586356, -571095, -555660, -540056,
      -524288, -508359, -492276, -476043, -459665, -443147, -426494, -409711, -392803,
      -375776, -358634, -341382, -324027, -306573, -289026, -271391, -253673, -235878,
      -218011, -200077, -182083, -164033, -145933, -127789, -109606, -91389, -73144, -54878,
      -36594, -18300>>

AtanTable ==
    <<0, 1, 1, 3, 4, 5, 5, 7, 8, 8, 9, 11, 12, 12, 14, 15, 15, 17, 18, 18, 20, 21, 21, 23,
      24, 25, 26, 27, 27, 28, 29, 31, 32, 32, 33, 35, 35, 37, 38, 38, 40, 40, 41, 42, 43,
      45, 46, 47, 48, 49, 49, 51, 51, 52, 54, 54, 56, 57, 57, 58, 60, 61, 62, 62, 63, 64,
      65, 66, 68, 68, 69, 71, 71, 72, 74, 74, 75, 77, 77, 78, 80, 81, 81, 82, 84, 84, 85,
      86, 88, 88, 90, 90, 91, 92, 93, 94, 95, 96, 97, 98, 99, 100, 101, 102, 103, 104, 105,
      106, 107, 108, 109, 110, 111, 112, 113, 114, 115, 116, 117, 118, 119, 120, 121, 122,
      123, 124, 125, 126, 127, 128, 129, 130, 131, 132, 133, 134, 135, 136, 137, 138, 139,
      140, 141, 142, 143, 144, 145, 146, 147, 148, 149, 150, 151, 152, 153, 154, 155, 156,
      157, 158, 159, 161, 161, 162, 163, 164, 165, 167, 167, 168, 169, 170, 171, 172, 174,
      174, 175, 176, 178, 178, 180, 181, 182, 183, 184, 185, 186, 187, 188, 189, 190, 191,
      192, 193, 194, 195, 196, 197, 198, 199, 200, 201, 202, 203, 204, 205, 206, 207, 208,
      209, 210, 212, 212, 213, 214, 215, 216, 218, 218, 219, 221, 221, 222, 223, 224, 225,
      227, 228, 229, 230, 230, 232, 233, 233, 235, 236, 237, 238, 239, 239, 241, 242, 243,
      244, 245, 246, 247, 248, 249, 250, 251, 252, 253, 254, 255, 256, 257, 258, 259, 260,
      261, 262, 263, 264, 265, 266, 267, 268, 269, 270, 270, 272, 272, 274, 275, 276, 276,
      278, 279, 280, 281, 282, 283, 283, 285, 286, 287, 288, 289, 289, 291, 292, 293, 294,
      295, 296, 297, 298, 299, 300, 301, 302, 303, 304, 305, 306, 307, 308, 309, 310, 311,
      312, 313, 314, 315, 316, 317, 318, 319, 320, 321, 322, 323, 324, 325, 326, 327, 328,
      329, 330, 331, 332, 333, 334, 335, 336, 337, 338, 339, 340, 341, 342, 343, 344, 345,
      346, 347, 348, 349, 350, 351, 352, 353, 354, 355, 356, 357, 358, 359, 0>>

math_cos_radians(angle_deg) == CosTable[angle_deg + 1]
math_sin_radians(angle_deg) == SinTable[angle_deg + 1]

\* int(v): truncation toward zero of num / den, den > 0
TruncDiv(num, den) == IF num >= 0 THEN num \div den ELSE -((-num) \div den)

\* fp >> 16
fixedpoint_to_int(fp) == fp \div FIXED15_16_ONE

\* int(value * 65536 + 0.5), value in units of 2^-20
float_to_fixedpoint(value) == TruncDiv(value + 8, 16)

\* Natural numbers beyond 2^31 are held as little-endian sequences of digits
\* in base 4096, so that the quotient dx / mag can be rounded exactly.
ToBig(n) == <<n % 4096, (n \div 4096) % 4096, n \div 16777216>>

RECURSIVE BigCoef(_, _, _, _)
BigCoef(x, y, k, i) ==
    IF i > Len(x) THEN 0
    ELSE (IF k + 1 - i >= 1 /\ k + 1 - i <= Len(y) THEN x[i] * y[k + 1 - i] ELSE 0)
         + BigCoef(x, y, k, i + 1)

RECURSIVE BigCarry(_, _)
BigCarry(c, carry) ==
    IF c = <<>> THEN <<carry>>
    ELSE \* t is bound once
         Only({ <<t % 4096>> \o BigCarry(Tail(c), t \div 4096) : t \in {Head(c) + carry} })

BigMul(x, y) ==
    BigCarry([k \in 1..(Len(x) + Len(y) - 1) |-> BigCoef(x, y, k, 1)], 0)

RECURSIVE BigLess(_, _)
BigLess(x, y) ==
    IF x = <<>> THEN FALSE
    ELSE IF x[Len(x)] # y[Len(y)] THEN x[Len(x)] < y[Len(y)]
    ELSE BigLess(SubSeq(x, 1, Len(x) - 1), SubSeq(y, 1, Len(y) - 1))

\* a * 65536 / sqrt(n) < r + 1/2, compared exactly as
\* (2a)^2 * 2^32 < (2r + 1)^2 * n
BelowHalf(a, n, r) ==
    BigLess(BigMul(BigMul(ToBig(2 * a), ToBig(2 * a)), <<0, 0, 256>>),
            BigMul(BigMul(ToBig(2 * r + 1), ToBig(2 * r + 1)), ToBig(n)))

\* the least r in lo..hi with a * 65536 / sqrt(n) < r + 1/2
RECURSIVE RoundSearch(_, _, _, _)
RoundSearch(a, n, lo, hi) ==
    IF lo = hi THEN lo
    ELSE Only({ IF BelowHalf(a, n, mid) THEN RoundSearch(a, n, lo, mid)
                ELSE RoundSearch(a, n, mid + 1, hi) : mid \in {(lo + hi) \div 2} })

\* int(round((d / mag) * 65536)) with mag = sqrt(n): the nearest integer (no
\* quotient of the inputs drawn lies halfway between two integers)
round_unit(d, n) ==
    IF d >= 0 THEN RoundSearch(d, n, 0, FIXED15_16_ONE)
    ELSE -RoundSearch(-d, n, 0, FIXED15_16_ONE)

\* a faulty vector_to_fixed_unit without the fallback for the zero vector
vector_to_fixed_unit_no_fallback(dx, dy) ==
    Only({ IF n = 0 THEN <<0, 0>>
           ELSE <<round_unit(dx, n), round_unit(dy, n)>> : n \in {dx * dx + dy * dy} })

\* dx and dy are whole numbers; mag == 0 exactly when both are 0
vector_to_fixed_unit(dx, dy) ==
    Only({ IF n = 0 THEN <<FIXED15_16_ONE, 0>>
           ELSE <<round_unit(dx, n), round_unit(dy, n)>> : n \in {dx * dx + dy * dy} })

(***************************************************************************)
(* MapEditorMainWindow                                                     *)
(***************************************************************************)
SPIN_MIN == 16
SPIN_MAX == 255
ANGLE_MAX == 359
TILE_DRAW_SIZE == 16

\* QSpinBox.setValue: the value is clamped to the range; valueChanged is
\* emitted when the clamped value differs from the one held
Clamp(v, lo, hi) == IF v < lo THEN lo ELSE IF v > hi THEN hi ELSE v

update_player_start_angle(P, angle_deg) ==
    LET x == math_cos_radians(angle_deg)
        y == math_sin_radians(angle_deg)
        x_fp == float_to_fixedpoint(x)
        y_fp == float_to_fixedpoint(y)
    IN  set_player_start_angle(P, x_fp, y_fp)

\* the floats update_player_start_angle hands to float_to_fixedpoint
update_player_start_angle_floats(angle_deg) ==
    <<math_cos_radians(angle_deg), math_sin_radians(angle_deg)>>

\* the direction update_player_start_angle stores for angle_deg
AngleDirection(angle_deg) ==
    <<float_to_fixedpoint(math_cos_radians(angle_deg)),
      float_to_fixedpoint(math_sin_radians(angle_deg))>>

\* int(math.degrees(math.atan2(fp_y / 65536, fp_x / 65536))) % 360, tabulated:
\* AtanTable for the directions update_player_start_angle stores, and the
\* directions of the files offered to load_map
atan2_deg(fp_angle_x, fp_angle_y) ==
    LET v == <<fp_angle_x, fp_angle_y>>
    IN  IF \E d \in 0..ANGLE_MAX : AngleDirection(d) = v
        THEN AtanTable[(CHOOSE d \in 0..ANGLE_MAX : AngleDirection(d) = v) + 1]
        ELSE CASE v = <<-65536, 0>> -> 180
               [] v = <<0, -65536>> -> 270
               [] v = <<-1, -1>> -> 225
               [] v = <<0, 0>> -> 0
               [] v = <<32768, 0>> -> 0
               [] v = <<-46341, 46341>> -> 135

\* the state of window and project as a handler threads it
Ed(P, u) == [P |-> P, ui |-> u]

\* the width spin box's valueChanged slot
on_map_width_changed(e, val) ==
    Ed(new_map(e.P, val, e.ui.map_height_sb), e.ui)

\* the height spin box's valueChanged slot
on_map_height_changed(e, val) ==
    Ed(new_map(e.P, e.ui.map_width_sb, val), e.ui)

player_angle_sb_setValue(e, v) ==
    LET val == Clamp(v, 0, ANGLE_MAX)
    IN  IF val = e.ui.player_angle_sb THEN e
        ELSE Ed(update_player_start_angle(e.P, val), [e.ui EXCEPT !.player_angle_sb = val])

map_height_sb_setValue(e, v) ==
    LET val == Clamp(v, SPIN_MIN, SPIN_MAX)
    IN  IF val = e.ui.map_height_sb THEN e
        ELSE on_map_height_changed(Ed(e.P, [e.ui EXCEPT !.map_height_sb = val]), val)

map_width_sb_setValue(e, v) ==
    LET val == Clamp(v, SPIN_MIN, SPIN_MAX)
    IN  IF val = e.ui.map_width_sb THEN e
        ELSE on_map_width_changed(Ed(e.P, [e.ui EXCEPT !.map_width_sb = val]), val)

\* load_map once a path was chosen: the import's result is not looked at
\* (each step is bound to its value before the next one uses it)
load_map(e, buf) ==
    Only({ [r |-> r, e |-> e3] :
           r \in {import_map_from_xip(buf, e.P)},
           e3 \in { map_width_sb_setValue(e2, e2.P.map.width) :
                    e2 \in { map_height_sb_setValue(e1, e1.P.map.height) :
                             e1 \in { player_angle_sb_setValue(Ed(r0.P, e.ui),
                                          atan2_deg(r0.P.player.start_angle_x,
                                                    r0.P.player.start_angle_y)) :
                                      r0 \in {import_map_from_xip(buf, e.P)} } } } })

(***************************************************************************)
(* MapCanvasWidget                                                         *)
(***************************************************************************)
\* a faulty _emit_tile_if_changed that paints the spawn's cell too
_emit_tile_if_changed_on_spawn(e, tx, ty, tile_id) ==
    IF e.ui.spawn_place_mode THEN e
    ELSE IF tx < 0 \/ ty < 0 \/ tx >= e.P.map.width \/ ty >= e.P.map.height THEN e
    ELSE IF <<tx, ty>> = e.ui.last_emitted_tile /\ tile_id = e.ui.last_emitted_tile_id THEN e
    ELSE Ed(set_tile(e.P, tx, ty, tile_id),
            [e.ui EXCEPT !.last_emitted_tile = <<tx, ty>>, !.last_emitted_tile_id = tile_id])

_emit_tile_if_changed(e, tx, ty, tile_id) ==
    IF e.ui.spawn_place_mode THEN e
    ELSE IF tx < 0 \/ ty < 0 \/ tx >= e.P.map.width \/ ty >= e.P.map.height THEN e
    ELSE IF <<tx, ty>> = e.ui.last_emitted_tile /\ tile_id = e.ui.last_emitted_tile_id THEN e
    ELSE IF /\ tx = fixedpoint_to_int(e.P.player.start_x)
            /\ ty = fixedpoint_to_int(e.P.player.start_y) THEN e
    ELSE Ed(set_tile(e.P, tx, ty, tile_id),
            [e.ui EXCEPT !.last_emitted_tile = <<tx, ty>>, !.last_emitted_tile_id = tile_id])

\* x, y: floats, in units of 2^-20
_emit_player_spawn(e, x, y) ==
    IF get_tile(e.P, TruncDiv(x, 1048576), TruncDiv(y, 1048576)) # 0 THEN e
    ELSE LET x_fp == float_to_fixedpoint(x)
             y_fp == float_to_fixedpoint(y)
         IN  Ed(set_player_start_pos(e.P, x_fp, y_fp), e.ui)

\* pos.x() / self._tile_draw_size, as a float in units of 2^-20
PixelToFloat(px) == px * (1048576 \div TILE_DRAW_SIZE)

mouse_press_player_mode(e, button, px, py) ==
    IF button = "left"
    THEN _emit_player_spawn(Ed(e.P, [e.ui EXCEPT !.mouse_down = TRUE]),
                            PixelToFloat(px), PixelToFloat(py))
    ELSE e

mouse_press_tile_mode(e, button, px, py) ==
    LET tx == px \div TILE_DRAW_SIZE
        ty == py \div TILE_DRAW_SIZE
        down == Ed(e.P, [e.ui EXCEPT !.mouse_down = TRUE])
    IN  IF button = "left" THEN _emit_tile_if_changed(down, tx, ty, e.ui.selected_tile_id)
        ELSE IF button = "right" THEN _emit_tile_if_changed(down, tx, ty, 0)
        ELSE e

mousePressEvent(e, button, px, py) ==
    IF e.ui.spawn_place_mode THEN mouse_press_player_mode(e, button, px, py)
    ELSE mouse_press_tile_mode(e, button, px, py)

mouse_move_tile_mode(e, buttons, px, py) ==
    LET tx == px \div TILE_DRAW_SIZE
        ty == py \div TILE_DRAW_SIZE
    IN  IF "left" \in buttons THEN _emit_tile_if_changed(e, tx, ty, e.ui.selected_tile_id)
        ELSE IF "right" \in buttons THEN _emit_tile_if_changed(e, tx, ty, 0)
        ELSE e

mouseMoveEvent(e, buttons, px, py) ==
    IF ~e.ui.mouse_down THEN e
    ELSE IF e.ui.spawn_place_mode THEN e
    ELSE mouse_move_tile_mode(e, buttons, px, py)

mouseReleaseEvent(e) ==
    IF ~e.ui.spawn_place_mode
    THEN Ed(e.P, [e.ui EXCEPT !.mouse_down = FALSE, !.last_emitted_tile = <<-1, -1>>,
                              !.last_emitted_tile_id = -1])
    ELSE Ed(e.P, [e.ui EXCEPT !.mouse_down = FALSE])

set_selected_tile_id(e, value) ==
    IF value < 0 THEN e ELSE Ed(e.P, [e.ui EXCEPT !.selected_tile_id = value])

set_player_place_mode(e, enabled) == Ed(e.P, [e.ui EXCEPT !.spawn_place_mode = enabled])

(***************************************************************************)
(* Spec: the editor window, driven by its handlers                         *)
(***************************************************************************)
SpinVals == {SPIN_MIN, SPIN_MIN + 1}
AngleVals == {0, 180}
SelectableTileIds == {1, 3}
Buttons == {"left", "right"}

\* pointer positions, in pixels: inside cells (0,0), (1,0) and (16,0), and one
\* left of the canvas (reached only while dragging)
PressPoints == {<<8, 8>>, <<24, 8>>, <<264, 8>>}
MovePoints == PressPoints \cup {<<-8, 8>>}

\* the canvas is resized to the map on every map_loaded (on_map_loaded), so a
\* press lands inside it
InCanvas(pt) ==
    /\ 0 <= pt[1] /\ pt[1] < map.width * TILE_DRAW_SIZE
    /\ 0 <= pt[2] /\ pt[2] < map.height * TILE_DRAW_SIZE

\* containers offered to load_map: spawn at (1.5, 0.5) facing -X, one wall tile
EdFields == <<98304, 32768, -65536, 0>>
EdTiles(n, at) == [i \in 1..n |-> IF i = at THEN 5 ELSE 0]
EdFileSquare == xip_image(20, 36, EdFields, 16, 16, EdTiles(256, 1), 38 + 256)
EdFileWide == xip_image(20, 36, EdFields, 17, 16, EdTiles(272, 1), 38 + 272)
EdFileTall == xip_image(20, 36, EdFields, 16, 17, EdTiles(272, 1), 38 + 272)
EdFileSmall == xip_image(20, 36, EdFields, 3, 2, EdTiles(6, 6), 38 + 6)
EdFileBadMagic == [EdFileSquare EXCEPT ![1] = 88]
\* a well-formed file whose direction has length one half
EdFileHalf == xip_image(20, 36, <<98304, 32768, 32768, 0>>, 16, 16, EdTiles(256, 1), 38 + 256)

EditorFiles == {EdFileSquare, EdFileWide, EdFileTall, EdFileSmall, EdFileBadMagic, EdFileHalf}

EdState == Ed(Proj, ui)

CommitEd(e) == \E f \in {e} : Commit(f.P) /\ ui' = f.ui

\* MapEditorMainWindow.__init__: new_map with the spin boxes' values, then
\* update_player_start_angle with the angle spin box's value
window_init ==
    update_player_start_angle(new_map(Project_init, ui_init.map_width_sb,
                                      ui_init.map_height_sb),
                              ui_init.player_angle_sb)

Init ==
    /\ map = window_init.map
    /\ player = window_init.player
    /\ dirty = window_init.dirty
    /\ emitted = window_init.emitted
    /\ disk = NoFile
    /\ op = Op("__init__", <<>>)
    /\ ret = NoRet
    /\ file = <<>>
    /\ ui = ui_init

WidthChanged(val) ==
    /\ val # ui.map_width_sb
    /\ CommitEd(map_width_sb_setValue(EdState, val))
    /\ op' = Op("map_width_sb.valueChanged", <<val>>)
    /\ ret' = NoRet
    /\ file' = <<>>
    /\ UNCHANGED disk

HeightChanged(val) ==
    /\ val # ui.map_height_sb
    /\ CommitEd(map_height_sb_setValue(EdState, val))
    /\ op' = Op("map_height_sb.valueChanged", <<val>>)
    /\ ret' = NoRet
    /\ file' = <<>>
    /\ UNCHANGED disk

AngleChanged(val) ==
    /\ val # ui.player_angle_sb
    /\ CommitEd(player_angle_sb_setValue(EdState, val))
    /\ op' = Op("player_angle_sb.valueChanged", <<val>>)
    /\ ret' = NoRet
    /\ file' = <<>>
    /\ UNCHANGED disk

PlaceModeToggled ==
    /\ CommitEd(set_player_place_mode(EdState, ~ui.spawn_place_mode))
    /\ op' = Op("set_player_place_mode", <<>>)
    /\ ret' = NoRet
    /\ file' = <<>>
    /\ UNCHANGED disk

TileSelected(tex_id) ==
    /\ CommitEd(set_selected_tile_id(EdState, tex_id))
    /\ op' = Op("set_selected_tile_id", <<tex_id>>)
    /\ ret' = NoRet
    /\ file' = <<>>
    /\ UNCHANGED disk

MousePress(button, pt) ==
    /\ InCanvas(pt)
    /\ CommitEd(mousePressEvent(EdState, button, pt[1], pt[2]))
    /\ op' = Op("mousePressEvent", pt)
    /\ ret' = NoRet
    /\ file' = <<>>
    /\ UNCHANGED disk

MouseMove(button, pt) ==
    /\ CommitEd(mouseMoveEvent(EdState, {button}, pt[1], pt[2]))
    /\ op' = Op("mouseMoveEvent", pt)
    /\ ret' = NoRet
    /\ file' = <<>>
    /\ UNCHANGED disk

MouseRelease ==
    /\ CommitEd(mouseReleaseEvent(EdState))
    /\ op' = Op("mouseReleaseEvent", <<>>)
    /\ ret' = NoRet
    /\ file' = <<>>
    /\ UNCHANGED disk

SaveClicked(can_open) ==
    \E s \in {save_map(Proj, can_open)} :
        /\ Commit(s.P)
        /\ disk' = DiskAfter(disk, s.exp)
        /\ op' = Op("save_map", <<>>)
        /\ ret' = [ok |-> s.exp.ok, msg |-> s.exp.msg, nread |-> 0, opened |-> s.exp.opened,
                   value |-> <<>>]
        /\ file' = <<>>
        /\ UNCHANGED ui

LoadClicked(buf) ==
    \E l \in {load_map(EdState, buf)} :
        /\ CommitEd(l.e)
        /\ op' = Op("load_map", <<>>)
        /\ ret' = Ret(l.r)
        /\ file' = buf
        /\ UNCHANGED disk

\* the window's controls: the spin boxes and the Save and Load buttons
Next ==
    \/ \E val \in SpinVals : WidthChanged(val)
    \/ \E val \in SpinVals : HeightChanged(val)
    \/ \E val \in AngleVals : AngleChanged(val)
    \/ \E can_open \in BOOLEAN : SaveClicked(can_open)
    \/ \E buf \in EditorFiles \cup {disk} : LoadClicked(buf)

Spec == Init /\ [][Next]_vars

(***************************************************************************)
(* Properties of the editor's load operation, stated over Spec             *)
(***************************************************************************)
\* C2: after load_map on a well-formed container the document's width,
\* height and tiles are those stored in the file.
C2_LoadKeepsFileMap ==
    (op.name = "load_map" /\ xip_well_formed(file)) =>
        /\ map.width = xip_width(file)
        /\ map.height = xip_height(file)
        /\ map.tiles = xip_tiles(file)

\* C3: after load_map on a well-formed container the document's four spawn
\* fields are those stored in the file's PlayerData section.
C3_LoadKeepsFileSpawn ==
    (op.name = "load_map" /\ xip_well_formed(file)) =>
        /\ player.start_x = xip_field(file, 0)
        /\ player.start_y = xip_field(file, 1)
        /\ player.start_angle_x = xip_field(file, 2)
        /\ player.start_angle_y = xip_field(file, 3)

\* the canvas and the controls that act on it
CanvasNext ==
    \/ \E val \in SpinVals : WidthChanged(val)
    \/ \E val \in SpinVals : HeightChanged(val)
    \/ \E val \in AngleVals : AngleChanged(val)
    \/ PlaceModeToggled
    \/ \E tex_id \in SelectableTileIds : TileSelected(tex_id)
    \/ \E button \in Buttons, pt \in PressPoints : MousePress(button, pt)
    \/ \E button \in Buttons, pt \in MovePoints : MouseMove(button, pt)
    \/ MouseRelease

CanvasSpec == Init /\ [][CanvasNext]_vars

\* x^2 + y^2 differs from 65536^2 by no more than components one off their
\* exact values allow (the squares are taken in halves of 8 bits, so that no
\* intermediate value leaves 32 bits)
IsUnitWithinRounding(x, y) ==
    LET ax == IF x < 0 THEN -x ELSE x
        ay == IF y < 0 THEN -y ELSE y
        q == (ax \div 256) * (ax \div 256) + (ay \div 256) * (ay \div 256)
        r == 512 * ((ax \div 256) * (ax % 256) + (ay \div 256) * (ay % 256))
               + (ax % 256) * (ax % 256) + (ay % 256) * (ay % 256)
        excess == (q - FIXED15_16_ONE) * FIXED15_16_ONE + r
    IN  /\ ax <= FIXED15_16_ONE + 1
        /\ ay <= FIXED15_16_ONE + 1
        /\ q - FIXED15_16_ONE >= -2048
        /\ q - FIXED15_16_ONE <= 2048
        /\ excess >= -(4 * FIXED15_16_ONE)
        /\ excess <= 4 * FIXED15_16_ONE

\* C23: whenever both start_angle_x and start_angle_y are set, the stored
\* direction is a unit vector within fixed-point rounding.
C23_DirectionIsUnit ==
    (player.start_angle_x # UNSET_FLAG /\ player.start_angle_y # UNSET_FLAG) =>
        IsUnitWithinRounding(player.start_angle_x, player.start_angle_y)

\* C22: every value the editor hands to float_to_fixedpoint is >= 0: the
\* cosine and sine of the angle chosen in the angle spin box, and the canvas
\* coordinates of a press that places the spawn.
C22_ArgumentsNonNegative ==
    /\ op.name = "player_angle_sb.valueChanged" =>
          \A i \in 1..2 : update_player_start_angle_floats(op.args[1])[i] >= 0
    /\ (op.name = "mousePressEvent" /\ ui.spawn_place_mode) =>
          (PixelToFloat(op.args[1]) >= 0 /\ PixelToFloat(op.args[2]) >= 0)

\* the cell that contains the spawn position
SpawnCell == <<fixedpoint_to_int(player.start_x), fixedpoint_to_int(player.start_y)>>

\* the cell under a pointer position given in pixels
CellAt(pt) == <<pt[1] \div TILE_DRAW_SIZE, pt[2] \div TILE_DRAW_SIZE>>

\* C26: under canvas events and map resizes the cell that contains the spawn
\* position never holds a non-empty tile; a press in place mode on a cell
\* whose tile is not 0 leaves the spawn alone, and a press or drag in tile
\* mode on the spawn's cell leaves the tiles alone.
C26_SpawnCellStaysEmpty ==
    /\ [](in_bounds(Proj, SpawnCell[1], SpawnCell[2]) =>
             get_tile(Proj, SpawnCell[1], SpawnCell[2]) = 0)
    /\ [][(/\ op'.name = "mousePressEvent"
           /\ ui.spawn_place_mode
           /\ get_tile(Proj, CellAt(op'.args)[1], CellAt(op'.args)[2]) # 0)
              => player' = player]_vars
    /\ [][(/\ op'.name \in {"mousePressEvent", "mouseMoveEvent"}
           /\ ~ui.spawn_place_mode
           /\ CellAt(op'.args) = SpawnCell)
              => map' = map]_vars

\* a press in tile mode landed on the spawn's cell while another cell is painted
C26_Witness ==
    /\ op.name = "mousePressEvent"
    /\ ~ui.spawn_place_mode
    /\ player.start_x # UNSET_FLAG
    /\ CellAt(op.args) = SpawnCell
    /\ in_bounds(Proj, SpawnCell[1], SpawnCell[2])
    /\ \E i \in 1..Len(map.tiles) : map.tiles[i] # 0

\* C27: under canvas events and map resizes, whenever the spawn position is
\* set its cell lies inside the current grid.
C27_SpawnCellInsideGrid ==
    (player.start_x # UNSET_FLAG /\ player.start_y # UNSET_FLAG) =>
        /\ 0 <= SpawnCell[1] /\ SpawnCell[1] < map.width
        /\ 0 <= SpawnCell[2] /\ SpawnCell[2] < map.height

(***************************************************************************)
(* ConversionHelpers called on their own: each step applies one of the     *)
(* static conversions to an input and records what it returned.            *)
(***************************************************************************)
MaxFloatUnits == 40
MaxVec == 4
VEC_FAR == 46000

\* floats in units of 2^-20: the values around zero, and the canvas
\* coordinates of whole pixels
FloatInputs ==
    (-MaxFloatUnits..MaxFloatUnits) \cup { PixelToFloat(px) : px \in 0..MaxFloatUnits }

\* whole-number vectors: every direction of a small grid, and directions a
\* fraction of a degree off an axis
VecInputs ==
    ((-MaxVec..MaxVec) \X (-MaxVec..MaxVec))
        \cup {<<-1, VEC_FAR>>, <<1, VEC_FAR>>, <<VEC_FAR, -1>>, <<2, -VEC_FAR>>}

\* a call that was made but has not returned yet
Pending(name) == op.name = name /\ ret.value = <<>>

\* the conversion about to be called, with its arguments
ConvInit ==
    /\ map = Project_init.map
    /\ player = Project_init.player
    /\ dirty = Project_init.dirty
    /\ emitted = <<>>
    /\ disk = NoFile
    /\ op \in { Op("float_to_fixedpoint", <<value>>) : value \in FloatInputs }
               \cup { Op("vector_to_fixed_unit", v) : v \in VecInputs }
    /\ ret = NoRet
    /\ file = <<>>
    /\ ui = ui_init

FloatToFixedpoint ==
    /\ Pending("float_to_fixedpoint")
    /\ ret' = [NoRet EXCEPT !.value = <<float_to_fixedpoint(op.args[1])>>]
    /\ UNCHANGED <<map, player, dirty, emitted, disk, op, file, ui>>

VectorToFixedUnit ==
    /\ Pending("vector_to_fixed_unit")
    /\ ret' = [NoRet EXCEPT !.value = vector_to_fixed_unit(op.args[1], op.args[2])]
    /\ UNCHANGED <<map, player, dirty, emitted, disk, op, file, ui>>

ConvNext ==
    \/ FloatToFixedpoint
    \/ VectorToFixedUnit

ConvSpec == ConvInit /\ [][ConvNext]_vars

\* the conversion named has returned
Returned(name) == op.name = name /\ ret.value # <<>>

\* C21: no conversion produces the sentinel -1: float_to_fixedpoint of a value
\* >= 0 is never -1, and neither component vector_to_fixed_unit returns is -1.
C21_NeverSentinel ==
    /\ (Returned("float_to_fixedpoint") /\ op.args[1] >= 0) => ret.value[1] # UNSET_FLAG
    /\ Returned("vector_to_fixed_unit") =>
          (ret.value[1] # UNSET_FLAG /\ ret.value[2] # UNSET_FLAG)

\* |r - 65536 * d / sqrt(n)| <= 1/2, compared exactly: r has the sign of d (or
\* is 0), and with a = |d|, s = |r|:
\* (2s - 1)^2 * n <= (2a)^2 * 2^32 <= (2s + 1)^2 * n
IsNearest(r, d, n) ==
    LET a == IF d < 0 THEN -d ELSE d
        s == IF r < 0 THEN -r ELSE r
        exact == BigMul(BigMul(ToBig(2 * a), ToBig(2 * a)), <<0, 0, 256>>)
        above == BigMul(BigMul(ToBig(2 * s + 1), ToBig(2 * s + 1)), ToBig(n))
        below == BigMul(BigMul(ToBig(2 * s - 1), ToBig(2 * s - 1)), ToBig(n))
    IN  /\ r > 0 => d > 0
        /\ r < 0 => d < 0
        /\ ~BigLess(above, exact)
        /\ s >= 1 => ~BigLess(exact, below)

\* C24: vector_to_fixed_unit(0, 0) returns exactly (65536, 0), and for every
\* non-zero (dx, dy) each component returned is the nearest integer to the
\* component of (dx, dy) / |(dx, dy)| scaled by 65536.
C24_UnitVectorRounded ==
    Returned("vector_to_fixed_unit") =>
        IF op.args = <<0, 0>> THEN ret.value = <<FIXED15_16_ONE, 0>>
        ELSE /\ Len(ret.value) = 2
             /\ \A i \in 1..2 :
                   IsNearest(ret.value[i], op.args[i],
                             op.args[1] * op.args[1] + op.args[2] * op.args[2])

\* the zero vector was converted
C24_Witness ==
    /\ Returned("vector_to_fixed_unit")
    /\ op.args = <<0, 0>>
    /\ ret.value = <<FIXED15_16_ONE, 0>>

\* a diagonal was converted: 65536 / sqrt(2) = 46340.95...
C24_WitnessDiagonal ==
    /\ Returned("vector_to_fixed_unit")
    /\ op.args = <<-1, 1>>
    /\ ret.value = <<-46341, 46341>>

====
